---- MODULE Spec2Model ----
(***************************************************************************)
(* State-machine model of src/sandbox (1)/src/App.tsx, the card-stunt      *)
(* pattern editor: the grid of cells, the range-selection gesture, the     *)
(* pattern store and the frame animator with its repeating timer.          *)
(*                                                                         *)
(* A grid is a JavaScript array.  Arrays are heap objects: `colors`, the   *)
(* entries of `animationFrames`, the frames a timer callback closed over   *)
(* and the values of `savedPatterns` are REFERENCES into `heap`, so that   *)
(* the sharing the code creates (line 82 installs a frame array as the     *)
(* displayed grid, line 95 stores the displayed array itself) is part of   *)
(* the state.  Cell objects are values: the code never writes to a cell,   *)
(* it builds a new one with {...cell, ...}.  Array index i of the code is  *)
(* position i+1 of the sequence.                                           *)
(***************************************************************************)
EXTENDS Integers, Sequences, FiniteSets, TLC

\* ---- program constants ----
ROWS == 4
COLUMNS_PER_CLASS == 10

\* ---- bounds of the model ----
MaxClasses == 2      \* the class-count select offers 1..6; 1..MaxClasses taken
MaxFrames == 2       \* saveFrame is taken while fewer frames are stored
MaxTimers == 2       \* setInterval handles handed out in one run
MaxEvents == 6       \* events handled in one run

\* ---- values ----
EMPTY == "bg-gray-800"
FILLED == "bg-blue-500"
SQUARE == "square"
TRIANGLE_LEFT == "triangle-left"
TRIANGLE_RIGHT == "triangle-right"

\* Values that stand beside cell indices and timer handles (all >= 0)
NULL == 0 - 1               \* JavaScript null (startIndex, intervalRef.current)
UNDEFINED == 0 - 2          \* JavaScript undefined
NaN == 0 - 3                \* Number(undefined)

PatternNames == <<"a">>     \* the non-empty names typed into the name field
NameSet == {PatternNames[k] : k \in 1..Len(PatternNames)}

VARIABLES
  numClasses, cols, colors, savedPatterns, localStorage, patternName,
  selectedPattern, animationFrames, isPlaying, frameIndex, intervalRef,
  timers, handles, selectMode, selecting, startIndex, selectedIndices,
  heap, events, lastEvent, probe

heapVars == <<heap, colors, animationFrames, timers, savedPatterns>>
progVars == <<numClasses, cols, colors, savedPatterns, localStorage,
              patternName, selectedPattern, animationFrames, isPlaying,
              frameIndex, intervalRef, timers, handles, selectMode,
              selecting, startIndex, selectedIndices, heap>>
vars == <<progVars, events, lastEvent, probe>>

Range(s) == {s[k] : k \in 1..Len(s)}

\* ---- pure functions of the source ----
DefaultCell == [color |-> EMPTY, shape |-> SQUARE]

createEmptyPattern(c) == [i \in 1..(ROWS * c) |-> DefaultCell]

\* Mutant of flipColor: the color is set to FILLED, not flipped.
flipColorToFilled(cell) == [cell EXCEPT !.color = FILLED]

flipColor(cell) ==
  [cell EXCEPT !.color = IF cell.color = EMPTY THEN FILLED ELSE EMPTY]

\* Mutant of cycleShape: the third shape is forgotten.
cycleShapeTwoShapes(cell) ==
  [cell EXCEPT !.shape = IF cell.shape = SQUARE THEN TRIANGLE_LEFT ELSE SQUARE]

cycleShape(cell) ==
  [cell EXCEPT !.shape = IF cell.shape = SQUARE THEN TRIANGLE_LEFT
                         ELSE IF cell.shape = TRIANGLE_LEFT THEN TRIANGLE_RIGHT
                         ELSE SQUARE]

\* prev.map(...) of toggleColor: a new array
toggleColorMap(prev, index) ==
  [i \in 1..Len(prev) |-> IF i - 1 = index THEN flipColor(prev[i]) ELSE prev[i]]

\* prev.map(...) of toggleShape: a new array
toggleShapeMap(prev, index) ==
  [i \in 1..Len(prev) |-> IF i - 1 = index THEN cycleShape(prev[i]) ELSE prev[i]]

\* Mutant of endSelectionMap: the selected cells are set to FILLED, not flipped.
endSelectionMapFillAll(prev, indices) ==
  [i \in 1..Len(prev) |->
     IF (i - 1) \in Range(indices) THEN [prev[i] EXCEPT !.color = FILLED]
     ELSE prev[i]]

\* prev.map(...) of handleEndSelection: a new array
endSelectionMap(prev, indices) ==
  [i \in 1..Len(prev) |->
     IF (i - 1) \in Range(indices) THEN flipColor(prev[i]) ELSE prev[i]]

\* Mutant of RowIndices: the right column is excluded (c < right).
RECURSIVE RowIndicesExclusive(_, _, _, _)
RowIndicesExclusive(r, c, right, k) ==
  IF c >= right THEN <<>>
  ELSE <<r * k + c>> \o RowIndicesExclusive(r, c + 1, right, k)

\* indices.push(r * cols + c) for c = left..right
RECURSIVE RowIndices(_, _, _, _)
RowIndices(r, c, right, k) ==
  IF c > right THEN <<>> ELSE <<r * k + c>> \o RowIndices(r, c + 1, right, k)

\* for r = top..bottom
RECURSIVE RectIndices(_, _, _, _, _)
RectIndices(r, bottom, left, right, k) ==
  IF r > bottom THEN <<>>
  ELSE RowIndices(r, left, right, k) \o RectIndices(r + 1, bottom, left, right, k)

Min(a, b) == IF a <= b THEN a ELSE b
Max(a, b) == IF a >= b THEN a ELSE b

\* With a NaN argument every row and column is NaN, r <= bottom is false at
\* once and the result is the empty array.
getRangeIndices(start, end) ==
  IF start = NaN \/ end = NaN THEN <<>>
  ELSE LET startRow == start \div cols
           startCol == start % cols
           endRow == end \div cols
           endCol == end % cols
       IN RectIndices(Min(startRow, endRow), Max(startRow, endRow),
                      Min(startCol, endCol), Max(startCol, endCol), cols)

\* Number(id) of a data-index attribute value
Number(id) == IF id = UNDEFINED THEN NaN ELSE id

\* JSON.stringify(updated): the arrays are written out by value
JSONstringify(h, sp) == [n \in DOMAIN sp |-> h[sp[n]]]

\* ---- the heap, up to the names of the references ----
RECURSIVE TimerRoots(_, _)
TimerRoots(tm, S) ==
  IF S = {} THEN <<>>
  ELSE LET m == CHOOSE x \in S : \A y \in S : x <= y
       IN tm[m] \o TimerRoots(tm, S \ {m})

RECURSIVE StoreRoots(_, _)
StoreRoots(sp, k) ==
  IF k > Len(PatternNames) THEN <<>>
  ELSE (IF PatternNames[k] \in DOMAIN sp THEN <<sp[PatternNames[k]]>> ELSE <<>>)
       \o StoreRoots(sp, k + 1)

RECURSIVE Dedup(_, _)
Dedup(s, acc) ==
  IF s = <<>> THEN acc
  ELSE IF Head(s) \in Range(acc) THEN Dedup(Tail(s), acc)
       ELSE Dedup(Tail(s), Append(acc, Head(s)))

\* Unreachable arrays are dropped and the live ones renamed 1..n in the order
\* the roots meet them: two heaps that differ only in the names of their
\* references are one state.
Canon(h, c, af, tm, sp) ==
  LET order == Dedup(<<c>> \o af \o TimerRoots(tm, DOMAIN tm) \o StoreRoots(sp, 1),
                     <<>>)
      ren(x) == CHOOSE k \in 1..Len(order) : order[k] = x
  IN [heap |-> [k \in 1..Len(order) |-> h[order[k]]],
      colors |-> ren(c),
      animationFrames |-> [k \in 1..Len(af) |-> ren(af[k])],
      timers |-> [t \in DOMAIN tm |-> [k \in 1..Len(tm[t]) |-> ren(tm[t][k])]],
      savedPatterns |-> [n \in DOMAIN sp |-> ren(sp[n])]]

Commit(h, c, af, tm, sp) ==
  LET n == Canon(h, c, af, tm, sp)
  IN /\ heap' = n.heap
     /\ colors' = n.colors
     /\ animationFrames' = n.animationFrames
     /\ timers' = n.timers
     /\ savedPatterns' = n.savedPatterns

\* a new array object holding g
New(g) == Append(heap, g)
NewRef == Len(heap) + 1

\* ---- inputs ----
Cells == 0..(ROWS * cols - 1)            \* the rendered cells
PressCells == {23} \cap Cells            \* cells pressed, clicked, touched
HoverCells == {36, 76} \cap Cells        \* cells the pointer is dragged over
\* element?.getAttribute("data-index") under the touch point: the index of a
\* cell, null for an element without the attribute, undefined for no element
TouchIds == HoverCells \cup {NULL, UNDEFINED}
TouchCounts == {1, 2}                    \* e.touches.length
Buttons == {0, 2}                        \* e.button: primary, secondary

\* `probe` records one call of a pure function when the function is examined
\* on its own (SpecRange, SpecCell); it is NoProbe throughout Spec.
NoProbe == [op |-> "none"]

Event(name) ==
  /\ events < MaxEvents
  /\ events' = events + 1
  /\ lastEvent' = name
  /\ UNCHANGED probe

\* ---- initial state: mounted with an empty localStorage ----
Init ==
  /\ numClasses = 1
  /\ cols = 1 * COLUMNS_PER_CLASS
  /\ heap = <<createEmptyPattern(1 * COLUMNS_PER_CLASS)>>
  /\ colors = 1
  /\ savedPatterns = <<>>
  /\ localStorage = <<>>
  /\ patternName = ""
  /\ selectedPattern = ""
  /\ animationFrames = <<>>
  /\ isPlaying = FALSE
  /\ frameIndex = 0
  /\ intervalRef = NULL
  /\ timers = <<>>
  /\ handles = 0
  /\ selectMode = FALSE
  /\ selecting = FALSE
  /\ startIndex = NULL
  /\ selectedIndices = <<>>
  /\ events = 0
  /\ lastEvent = "mount"
  /\ probe = NoProbe

\* Mutant of setNumClasses: the effect forgets setAnimationFrames([]).
setNumClassesKeepFrames(n) ==
  /\ n # numClasses
  /\ Event("setNumClasses")
  /\ numClasses' = n
  /\ LET newCols == n * COLUMNS_PER_CLASS
     IN /\ cols' = newCols
        /\ Commit(New(createEmptyPattern(newCols)), NewRef, animationFrames,
                  timers, savedPatterns)
  /\ selectedPattern' = ""
  /\ UNCHANGED <<localStorage, patternName, isPlaying, frameIndex, intervalRef,
                 handles, selectMode, selecting, startIndex, selectedIndices>>

\* ---- class count: the select's onChange and the effect on numClasses ----
setNumClasses(n) ==
  /\ n # numClasses
  /\ Event("setNumClasses")
  /\ numClasses' = n
  /\ LET newCols == n * COLUMNS_PER_CLASS
     IN /\ cols' = newCols
        /\ Commit(New(createEmptyPattern(newCols)), NewRef, <<>>, timers,
                  savedPatterns)
  /\ selectedPattern' = ""
  /\ UNCHANGED <<localStorage, patternName, isPlaying, frameIndex, intervalRef,
                 handles, selectMode, selecting, startIndex, selectedIndices>>

\* ---- pattern store ----
setPatternName(v) ==
  /\ v # patternName
  /\ Event("setPatternName")
  /\ patternName' = v
  /\ UNCHANGED <<numClasses, cols, heapVars, localStorage, selectedPattern,
                 isPlaying, frameIndex, intervalRef, handles, selectMode,
                 selecting, startIndex, selectedIndices>>

savePattern ==
  /\ Event("savePattern")
  /\ IF patternName # ""
     THEN LET updated == [n \in DOMAIN savedPatterns \cup {patternName} |->
                            IF n = patternName THEN colors ELSE savedPatterns[n]]
          IN /\ localStorage' = JSONstringify(heap, updated)
             /\ Commit(heap, colors, animationFrames, timers, updated)
             /\ patternName' = ""
     ELSE UNCHANGED <<localStorage, heapVars, patternName>>
  /\ UNCHANGED <<numClasses, cols, selectedPattern, isPlaying, frameIndex,
                 intervalRef, handles, selectMode, selecting, startIndex,
                 selectedIndices>>

\* Mutant of loadPattern: the fallback grid has the columns of one class, not
\* the current cols.
loadPatternInitialCols(name) ==
  /\ name # selectedPattern
  /\ Event("loadPattern")
  /\ selectedPattern' = name
  /\ IF name \in DOMAIN savedPatterns
     THEN Commit(heap, savedPatterns[name], animationFrames, timers,
                 savedPatterns)
     ELSE Commit(New(createEmptyPattern(COLUMNS_PER_CLASS)), NewRef,
                 animationFrames, timers, savedPatterns)
  /\ UNCHANGED <<numClasses, cols, localStorage, patternName, isPlaying,
                 frameIndex, intervalRef, handles, selectMode, selecting,
                 startIndex, selectedIndices>>

loadPattern(name) ==
  /\ name # selectedPattern
  /\ Event("loadPattern")
  /\ selectedPattern' = name
  /\ IF name \in DOMAIN savedPatterns
     THEN Commit(heap, savedPatterns[name], animationFrames, timers,
                 savedPatterns)
     ELSE Commit(New(createEmptyPattern(cols)), NewRef, animationFrames, timers,
                 savedPatterns)
  /\ UNCHANGED <<numClasses, cols, localStorage, patternName, isPlaying,
                 frameIndex, intervalRef, handles, selectMode, selecting,
                 startIndex, selectedIndices>>

deletePattern(name) ==
  /\ name # ""
  /\ Event("deletePattern")
  /\ LET updated == [n \in DOMAIN savedPatterns \ {name} |-> savedPatterns[n]]
     IN /\ localStorage' = JSONstringify(heap, updated)
        /\ Commit(New(createEmptyPattern(cols)), NewRef, animationFrames,
                  timers, updated)
  /\ selectedPattern' = ""
  /\ UNCHANGED <<numClasses, cols, patternName, isPlaying, frameIndex,
                 intervalRef, handles, selectMode, selecting, startIndex,
                 selectedIndices>>

clearPattern ==
  /\ Event("clearPattern")
  /\ Commit(New(createEmptyPattern(cols)), NewRef, <<>>, timers, savedPatterns)
  /\ UNCHANGED <<numClasses, cols, localStorage, patternName, selectedPattern,
                 isPlaying, frameIndex, intervalRef, handles, selectMode,
                 selecting, startIndex, selectedIndices>>

\* ---- single-cell edits ----
\* Mutant of toggleColor: the displayed array is written in place.
toggleColorInPlace(index) ==
  /\ Commit([heap EXCEPT ![colors] = toggleColorMap(heap[colors], index)],
            colors, animationFrames, timers, savedPatterns)
  /\ UNCHANGED <<numClasses, cols, localStorage, patternName, selectedPattern,
                 isPlaying, frameIndex, intervalRef, handles, selectMode,
                 selecting, startIndex, selectedIndices>>

toggleColor(index) ==
  /\ Commit(New(toggleColorMap(heap[colors], index)), NewRef, animationFrames,
            timers, savedPatterns)
  /\ UNCHANGED <<numClasses, cols, localStorage, patternName, selectedPattern,
                 isPlaying, frameIndex, intervalRef, handles, selectMode,
                 selecting, startIndex, selectedIndices>>

toggleShape(index) ==
  /\ Commit(New(toggleShapeMap(heap[colors], index)), NewRef, animationFrames,
            timers, savedPatterns)
  /\ UNCHANGED <<numClasses, cols, localStorage, patternName, selectedPattern,
                 isPlaying, frameIndex, intervalRef, handles, selectMode,
                 selecting, startIndex, selectedIndices>>

\* onClick of a cell: !selectMode && toggleColor(index)
onClick(index) ==
  /\ Event("click")
  /\ IF ~selectMode THEN toggleColor(index) ELSE UNCHANGED progVars

\* onContextMenu of a cell
onContextMenu(index) ==
  /\ Event("contextmenu")
  /\ toggleShape(index)

\* ---- animator ----
saveFrame ==
  /\ Len(animationFrames) < MaxFrames
  /\ Event("saveFrame")
  /\ Commit(New(heap[colors]), colors, Append(animationFrames, NewRef), timers,
            savedPatterns)
  /\ UNCHANGED <<numClasses, cols, localStorage, patternName, selectedPattern,
                 isPlaying, frameIndex, intervalRef, handles, selectMode,
                 selecting, startIndex, selectedIndices>>

\* Mutant of playAnimation: the guard forgets isPlaying.
playAnimationUnguarded ==
  /\ Event("playAnimation")
  /\ IF Len(animationFrames) = 0
     THEN UNCHANGED progVars
     ELSE /\ handles < MaxTimers
          /\ isPlaying' = TRUE
          /\ handles' = handles + 1
          /\ intervalRef' = handles + 1
          /\ Commit(heap, colors, animationFrames,
                    [t \in DOMAIN timers \cup {handles + 1} |->
                       IF t = handles + 1 THEN animationFrames ELSE timers[t]],
                    savedPatterns)
          /\ UNCHANGED <<numClasses, cols, localStorage, patternName,
                         selectedPattern, frameIndex, selectMode, selecting,
                         startIndex, selectedIndices>>

playAnimation ==
  /\ Event("playAnimation")
  /\ IF isPlaying \/ Len(animationFrames) = 0
     THEN UNCHANGED progVars
     ELSE /\ handles < MaxTimers
          /\ isPlaying' = TRUE
          /\ handles' = handles + 1
          /\ intervalRef' = handles + 1
          /\ Commit(heap, colors, animationFrames,
                    [t \in DOMAIN timers \cup {handles + 1} |->
                       IF t = handles + 1 THEN animationFrames ELSE timers[t]],
                    savedPatterns)
          /\ UNCHANGED <<numClasses, cols, localStorage, patternName,
                         selectedPattern, frameIndex, selectMode, selecting,
                         startIndex, selectedIndices>>

\* the interval callback of handle t, with the animationFrames it closed over
Tick(t) ==
  /\ Event("tick")
  /\ LET next == (frameIndex + 1) % Len(timers[t])
     IN /\ frameIndex' = next
        /\ Commit(heap, timers[t][next + 1], animationFrames, timers,
                  savedPatterns)
  /\ UNCHANGED <<numClasses, cols, localStorage, patternName, selectedPattern,
                 isPlaying, intervalRef, handles, selectMode, selecting,
                 startIndex, selectedIndices>>

\* Mutant of stopAnimation: clearInterval is forgotten.
stopAnimationNoClear ==
  /\ Event("stopAnimation")
  /\ isPlaying' = FALSE
  /\ UNCHANGED <<numClasses, cols, heapVars, localStorage, patternName,
                 selectedPattern, frameIndex, intervalRef, handles, selectMode,
                 selecting, startIndex, selectedIndices>>

stopAnimation ==
  /\ Event("stopAnimation")
  /\ isPlaying' = FALSE
  /\ IF intervalRef # NULL
     THEN Commit(heap, colors, animationFrames,
                 [t \in DOMAIN timers \ {intervalRef} |-> timers[t]],
                 savedPatterns)
     ELSE UNCHANGED heapVars
  /\ UNCHANGED <<numClasses, cols, localStorage, patternName, selectedPattern,
                 frameIndex, intervalRef, handles, selectMode, selecting,
                 startIndex, selectedIndices>>

\* ---- range selection ----
toggleSelectMode ==
  /\ Event("toggleSelectMode")
  /\ selectMode' = ~selectMode
  /\ UNCHANGED <<numClasses, cols, heapVars, localStorage, patternName,
                 selectedPattern, isPlaying, frameIndex, intervalRef, handles,
                 selecting, startIndex, selectedIndices>>

handleTouchStart(touches, index) ==
  /\ Event("touchstart")
  /\ IF touches = 1 /\ selectMode
     THEN /\ selecting' = TRUE
          /\ startIndex' = index
          /\ selectedIndices' = <<index>>
     ELSE UNCHANGED <<selecting, startIndex, selectedIndices>>
  /\ UNCHANGED <<numClasses, cols, heapVars, localStorage, patternName,
                 selectedPattern, isPlaying, frameIndex, intervalRef, handles,
                 selectMode>>

handleTouchMove(touches, id) ==
  /\ Event(IF id = UNDEFINED THEN "touchmove-noelement"
           ELSE IF id = NULL THEN "touchmove-noindex" ELSE "touchmove")
  /\ IF touches # 1 \/ ~selecting \/ startIndex = NULL
     THEN UNCHANGED selectedIndices
     ELSE IF id # NULL
          THEN selectedIndices' = getRangeIndices(startIndex, Number(id))
          ELSE UNCHANGED selectedIndices
  /\ UNCHANGED <<numClasses, cols, heapVars, localStorage, patternName,
                 selectedPattern, isPlaying, frameIndex, intervalRef, handles,
                 selectMode, selecting, startIndex>>

handleMouseDown(index) ==
  /\ IF ~selectMode
     THEN UNCHANGED <<selecting, startIndex, selectedIndices>>
     ELSE /\ selecting' = TRUE
          /\ startIndex' = index
          /\ selectedIndices' = <<index>>
  /\ UNCHANGED <<numClasses, cols, heapVars, localStorage, patternName,
                 selectedPattern, isPlaying, frameIndex, intervalRef, handles,
                 selectMode>>

\* onMouseDown of a cell: the handler is bound for every mouse button
onMouseDown(button, index) ==
  /\ Event(IF button = 2 THEN "mousedown-secondary" ELSE "mousedown")
  /\ handleMouseDown(index)

handleMouseEnter(index) ==
  /\ Event("mouseenter")
  /\ IF ~selecting \/ ~selectMode \/ startIndex = NULL
     THEN UNCHANGED selectedIndices
     ELSE selectedIndices' = getRangeIndices(startIndex, index)
  /\ UNCHANGED <<numClasses, cols, heapVars, localStorage, patternName,
                 selectedPattern, isPlaying, frameIndex, intervalRef, handles,
                 selectMode, selecting, startIndex>>

\* onMouseUp and onTouchEnd of the container
handleEndSelection ==
  /\ Event("endSelection")
  /\ IF ~selectMode
     THEN UNCHANGED progVars
     ELSE /\ selecting' = FALSE
          /\ Commit(New(endSelectionMap(heap[colors], selectedIndices)), NewRef,
                    animationFrames, timers, savedPatterns)
          /\ selectedIndices' = <<>>
          /\ UNCHANGED <<numClasses, cols, localStorage, patternName,
                         selectedPattern, isPlaying, frameIndex, intervalRef,
                         handles, selectMode, startIndex>>

Next ==
  \/ \E n \in 1..MaxClasses : setNumClasses(n)
  \/ \E v \in NameSet \cup {""} : setPatternName(v)
  \/ savePattern
  \/ \E name \in DOMAIN savedPatterns \cup {""} : loadPattern(name)
  \/ deletePattern(selectedPattern)
  \/ clearPattern
  \/ \E i \in PressCells : onClick(i)
  \/ \E i \in PressCells : onContextMenu(i)
  \/ saveFrame
  \/ playAnimation
  \/ \E t \in DOMAIN timers : Tick(t)
  \/ stopAnimation
  \/ toggleSelectMode
  \/ \E n \in TouchCounts, i \in PressCells : handleTouchStart(n, i)
  \/ \E n \in TouchCounts, id \in TouchIds : handleTouchMove(n, id)
  \/ \E b \in Buttons, i \in PressCells : onMouseDown(b, i)
  \/ \E i \in HoverCells : handleMouseEnter(i)
  \/ handleEndSelection

Spec == Init /\ [][Next]_vars

\* ---- what a user sees ----
Grid == heap[colors]                                   \* the displayed grid
Frames == [k \in 1..Len(animationFrames) |-> heap[animationFrames[k]]]
Closure(t) == [k \in 1..Len(timers[t]) |-> heap[timers[t][k]]]
ActiveTimers == DOMAIN timers
ColorOf(g, index) == g[index + 1].color
ShapeOf(g, index) == g[index + 1].shape

\* ---- the pure functions on their own ----
\* The mounted application with n classes chosen and g displayed.
InitWith(n, g) ==
  /\ numClasses = n
  /\ cols = n * COLUMNS_PER_CLASS
  /\ heap = <<g>>
  /\ colors = 1
  /\ savedPatterns = <<>>
  /\ localStorage = <<>>
  /\ patternName = ""
  /\ selectedPattern = ""
  /\ animationFrames = <<>>
  /\ isPlaying = FALSE
  /\ frameIndex = 0
  /\ intervalRef = NULL
  /\ timers = <<>>
  /\ handles = 0
  /\ selectMode = FALSE
  /\ selecting = FALSE
  /\ startIndex = NULL
  /\ selectedIndices = <<>>
  /\ events = 0
  /\ lastEvent = "mount"
  /\ probe = NoProbe

\* getRangeIndices(a, b) for every pair of rendered cells
ProbeRange(a, b) ==
  /\ probe.op = "none"
  /\ probe' = [op |-> "getRangeIndices", start |-> a, end |-> b,
               out |-> getRangeIndices(a, b)]
  /\ UNCHANGED <<progVars, events, lastEvent>>

InitRange == \E n \in 1..MaxClasses : InitWith(n, createEmptyPattern(n * COLUMNS_PER_CLASS))
NextRange == \E a \in Cells, b \in Cells : ProbeRange(a, b)
SpecRange == InitRange /\ [][NextRange]_vars

\* Grids whose cells 0 and 23 hold any color and shape
CellValues ==
  {[color |-> c, shape |-> sh] :
     c \in {EMPTY, FILLED}, sh \in {SQUARE, TRIANGLE_LEFT, TRIANGLE_RIGHT}}
SampleGrids(n) ==
  {[i \in 1..(ROWS * n * COLUMNS_PER_CLASS) |->
      IF i = 1 THEN c0 ELSE IF i = 24 THEN c23 ELSE DefaultCell] :
     c0 \in CellValues, c23 \in CellValues}

\* toggleColor has no throw and no test of index: the call completes
toggleColorOutcome(index) == "completed"

\* toggleColor(index), up to twice in a row on one index; the index is any
\* rendered cell, or one before the first or after the last
IndexInputs == Cells \cup {0 - 1, ROWS * cols}
ProbeToggleColor(index) ==
  /\ \/ probe.op = "none"
     \/ probe.op = "toggleColor" /\ probe.index = index /\ probe.n < 2
  /\ toggleColor(index)
  /\ probe' = [op |-> "toggleColor", index |-> index,
               orig |-> IF probe.op = "none" THEN Grid ELSE probe.orig,
               n |-> IF probe.op = "none" THEN 1 ELSE probe.n + 1,
               outcome |-> toggleColorOutcome(index)]
  /\ UNCHANGED <<events, lastEvent>>

\* toggleShape(index), up to three times in a row on one rendered cell
ProbeToggleShape(index) ==
  /\ \/ probe.op = "none"
     \/ probe.op = "toggleShape" /\ probe.index = index /\ probe.n < 3
  /\ toggleShape(index)
  /\ probe' = [op |-> "toggleShape", index |-> index,
               orig |-> IF probe.op = "none" THEN Grid ELSE probe.orig,
               n |-> IF probe.op = "none" THEN 1 ELSE probe.n + 1]
  /\ UNCHANGED <<events, lastEvent>>

InitCell == \E n \in 1..MaxClasses : \E g \in SampleGrids(n) : InitWith(n, g)
NextCell ==
  \/ \E i \in IndexInputs : ProbeToggleColor(i)
  \/ \E i \in Cells : ProbeToggleShape(i)
SpecCell == InitCell /\ [][NextCell]_vars

\* C1: in every reachable state the displayed grid has exactly ROWS * cols
\* cells, cols being the current column count.
C1_GridHasRowsTimesCols == Len(Grid) = ROWS * cols

\* C2: a gesture that ends in the Selecting state with selection mode on flips
\* the color of exactly the cells whose index is in selectedIndices, each one
\* for itself, and changes no shape; with cols = 10 the selection from 23 to 36
\* flips exactly the cells 23,24,25,26,33,34,35,36.
C2_EndFlipsExactlySelection ==
  [][(lastEvent' = "endSelection" /\ selectMode /\ selecting) =>
       /\ Len(Grid') = Len(Grid)
       /\ \A i \in 0..(Len(Grid) - 1) :
            /\ ShapeOf(Grid', i) = ShapeOf(Grid, i)
            /\ ColorOf(Grid', i) \in {EMPTY, FILLED}
            /\ (ColorOf(Grid', i) # ColorOf(Grid, i)) <=>
                 (\E k \in 1..Len(selectedIndices) : selectedIndices[k] = i)
       /\ (cols = 10 /\ selectedIndices = getRangeIndices(23, 36)) =>
            {i \in 0..(Len(Grid) - 1) : ColorOf(Grid', i) # ColorOf(Grid, i)}
              = {23, 24, 25, 26, 33, 34, 35, 36}]_vars

\* C2 witness: cell 23 was filled and given a triangle, then the gesture from 23
\* to 36 ended: 23 is empty again, the seven others are filled, the shape stays.
C2_Witness ==
  /\ lastEvent = "endSelection"
  /\ cols = 10
  /\ ColorOf(Grid, 23) = EMPTY
  /\ ShapeOf(Grid, 23) = TRIANGLE_LEFT
  /\ \A i \in {24, 25, 26, 33, 34, 35, 36} : ColorOf(Grid, i) = FILLED
  /\ \A i \in {22, 27, 32, 37} : ColorOf(Grid, i) = EMPTY

\* C3: toggling selection mode off during a gesture abandons the gesture
\* (selecting does not stay true), and toggling it on never by itself puts the
\* controller in the Selecting state.
C3_ToggleAbandonsGesture ==
  [][lastEvent' = "toggleSelectMode" =>
       /\ (selectMode /\ selecting) => ~selecting'
       /\ ~selectMode => ~(selectMode' /\ selecting')]_vars

\* C4: at most one repeating timer is ever active, and play() invoked while
\* already playing or with no frames changes no state and starts no timer.
C4_OneTimerPlayIdempotent ==
  [][/\ Cardinality(ActiveTimers') <= 1
     /\ (lastEvent' = "playAnimation"
           /\ (isPlaying \/ Len(animationFrames) = 0)) =>
          UNCHANGED progVars]_vars

\* C4 witness: two frames, play, a tick, then play again while playing.
C4_Witness ==
  /\ lastEvent = "playAnimation"
  /\ isPlaying
  /\ handles = 1
  /\ frameIndex = 1
  /\ Cardinality(ActiveTimers) = 1

\* C5: on every tick while playing the cursor becomes (cursor + 1) mod the
\* length of the frame sequence at the time of the tick, and the displayed grid
\* becomes the frame at the new cursor of that current sequence.
C5_TickUsesCurrentFrames ==
  [][(lastEvent' = "tick" /\ isPlaying /\ Len(animationFrames) > 0) =>
       /\ frameIndex' = (frameIndex + 1) % Len(animationFrames)
       /\ Grid' = Frames[frameIndex' + 1]]_vars

\* C6: once a clear or a class-count change has discarded the frames, no tick
\* installs a frame captured before it: a tick only ever installs an array of
\* the current frame sequence.
C6_TickInstallsNoDiscardedFrame ==
  [][lastEvent' = "tick" =>
       \E k \in 1..Len(animationFrames') : colors' = animationFrames'[k]]_vars

\* C7: right after a class-count change the frame sequence is empty and the
\* grid is ROWS * newCols default cells, whatever the grid held before.
C7_ResizeResets ==
  [][numClasses' # numClasses =>
       /\ cols' = numClasses' * 10
       /\ animationFrames' = <<>>
       /\ Len(Grid') = 4 * cols'
       /\ \A i \in 0..(Len(Grid') - 1) :
            ColorOf(Grid', i) = EMPTY /\ ShapeOf(Grid', i) = SQUARE]_vars

\* C7 witness: cell 23 filled, a frame captured and played, then the class
\* count changed (the four events of the run, in their only possible order).
C7_Witness ==
  /\ lastEvent = "setNumClasses"
  /\ events = 4
  /\ numClasses = 2
  /\ ActiveTimers # {}
  /\ \A t \in ActiveTimers : ColorOf(Closure(t)[1], 23) = FILLED

\* C8: clear and the class-count change both discard all frames and reset the
\* playback cursor frameIndex to 0.
C8_ClearResetsCursor ==
  [][lastEvent' \in {"clearPattern", "setNumClasses"} =>
       animationFrames' = <<>> /\ frameIndex' = 0]_vars

\* C9: stop() sets playing to false and cancels the timer, so that ticks happen
\* only while playing; it leaves cursor, grid and frames as they are, and
\* invoked while not playing it changes no state.
C9_StopFreezes ==
  [][/\ lastEvent' = "stopAnimation" =>
          /\ ~isPlaying'
          /\ ActiveTimers' = {}
          /\ frameIndex' = frameIndex
          /\ Grid' = Grid
          /\ Frames' = Frames
          /\ ~isPlaying => UNCHANGED progVars
     /\ lastEvent' = "tick" => isPlaying
     /\ ~isPlaying' => ActiveTimers' = {}]_vars

\* C9 witness: playback stopped after a tick had moved the cursor to frame 1.
C9_Witness ==
  /\ lastEvent = "stopAnimation"
  /\ ~isPlaying
  /\ handles = 1
  /\ frameIndex = 1
  /\ Len(animationFrames) = 2

\* C10: a captured frame is an independent snapshot: no event other than the
\* two that discard the frames changes the contents of a stored frame, of the
\* sequence or held by a running timer, also when the event edits a displayed
\* grid that a tick installed from that frame.
C10_FramesAreSnapshots ==
  [][/\ lastEvent' \notin {"clearPattern", "setNumClasses"} =>
          /\ Len(animationFrames') >= Len(animationFrames)
          /\ \A k \in 1..Len(animationFrames) : Frames'[k] = Frames[k]
     /\ \A t \in ActiveTimers \cap ActiveTimers' : Closure(t)' = Closure(t)]_vars

\* C10 witness: two default frames, play, a tick installs frame 1 as the grid,
\* then cell 23 of that grid is filled; the stored frame still has it empty.
C10_Witness ==
  /\ lastEvent = "click"
  /\ events = 5
  /\ frameIndex = 1
  /\ Len(animationFrames) = 2
  /\ ColorOf(Grid, 23) = FILLED
  /\ ColorOf(Frames[2], 23) = EMPTY

\* C11: a secondary press on a cell cycles the shape of that cell only and
\* takes no part in range selection: its mousedown leaves selecting,
\* startIndex and selectedIndices as they are, and its contextmenu changes no
\* color.
C11_SecondaryPressOutsideSelection ==
  [][/\ lastEvent' = "mousedown-secondary" =>
          UNCHANGED <<selecting, startIndex, selectedIndices>>
     /\ lastEvent' = "contextmenu" =>
          /\ UNCHANGED <<selecting, startIndex, selectedIndices>>
          /\ Len(Grid') = Len(Grid)
          /\ \A i \in 0..(Len(Grid) - 1) : ColorOf(Grid', i) = ColorOf(Grid, i)]_vars

\* C12: during a touch drag in the Selecting state a point that resolves to no
\* cell (no element, or an element without data-index) changes nothing:
\* selectedIndices, startIndex, selecting and the grid stay as they are.
C12_TouchOffGridIsNoOp ==
  [][(lastEvent' \in {"touchmove-noelement", "touchmove-noindex"} /\ selecting) =>
       /\ UNCHANGED <<selectedIndices, startIndex, selecting>>
       /\ Grid' = Grid]_vars

\* C14: loading a name that is not in the store installs the all-default grid
\* of the current dimensions, ROWS * cols cells.
C14_LoadAbsentGivesEmptyGrid ==
  [][(lastEvent' = "loadPattern" /\ selectedPattern' \notin DOMAIN savedPatterns) =>
       /\ Len(Grid') = 4 * cols
       /\ \A i \in 0..(Len(Grid') - 1) :
            ColorOf(Grid', i) = EMPTY /\ ShapeOf(Grid', i) = SQUARE]_vars

\* C14 witness: a 40-cell pattern saved, two classes chosen, the pattern
\* loaded, then the empty name loaded: the grid is 80 default cells.
C14_Witness ==
  /\ lastEvent = "loadPattern"
  /\ selectedPattern = ""
  /\ numClasses = 2
  /\ "a" \in DOMAIN savedPatterns
  /\ Len(heap[savedPatterns["a"]]) = 40
  /\ Len(Grid) = 80

\* C18: after every gesture end the whole selection state is cleared:
\* selecting is false, startIndex is null and selectedIndices is empty.
C18_GestureEndClearsSelection ==
  [][lastEvent' = "endSelection" =>
       /\ ~selecting'
       /\ startIndex' = NULL
       /\ selectedIndices' = <<>>]_vars

\* C19: in every reachable state every index of selectedIndices and a non-null
\* startIndex lie in [0, ROWS * cols) for the current cols.
C19_SelectionInsideGrid ==
  /\ startIndex # NULL => startIndex \in 0..(4 * cols - 1)
  /\ \A k \in 1..Len(selectedIndices) : selectedIndices[k] \in 0..(4 * cols - 1)

\* C20: in every reachable state with a non-empty frame sequence the cursor
\* satisfies 0 <= frameIndex < frameCount.
C20_CursorInsideFrames ==
  Len(animationFrames) > 0 =>
    (0 <= frameIndex /\ frameIndex < Len(animationFrames))

\* C13: toggleColor with an index outside [0, rows * cols) fails with an
\* IndexOutOfRange outcome instead of completing silently.
C13_ToggleColorOutOfRangeFails ==
  (probe.op = "toggleColor" /\ probe.index \notin 0..(4 * cols - 1)) =>
    probe.outcome = "IndexOutOfRange"

\* C15: for valid a, b the result of getRangeIndices(a, b) lists, in row-major
\* order and without duplicates, exactly the indices r * cols + c of the rows
\* and columns between those of a and b; its length is
\* (|rowA - rowB| + 1) * (|colA - colB| + 1), (a, a) gives <<a>>, and every
\* index is inside the grid.
C15_RangeIsRectangle ==
  probe.op = "getRangeIndices" =>
    LET a == probe.start
        b == probe.end
        out == probe.out
        rowA == a \div cols
        rowB == b \div cols
        colA == a % cols
        colB == b % cols
        Abs(x) == IF x < 0 THEN 0 - x ELSE x
    IN /\ {out[k] : k \in 1..Len(out)} =
            {r * cols + c : r \in (IF rowA < rowB THEN rowA ELSE rowB)..
                                  (IF rowA < rowB THEN rowB ELSE rowA),
                           c \in (IF colA < colB THEN colA ELSE colB)..
                                  (IF colA < colB THEN colB ELSE colA)}
       /\ \A k \in 1..(Len(out) - 1) : out[k] < out[k + 1]
       /\ Len(out) = (Abs(rowA - rowB) + 1) * (Abs(colA - colB) + 1)
       /\ (a = b) => (out = <<a>>)
       /\ \A k \in 1..Len(out) : out[k] >= 0 /\ out[k] < 4 * cols

\* C15 witness: cols = 10, from index(0,2) = 2 to index(2,5) = 25: the twelve
\* indices of rows 0..2 and columns 2..5.
C15_Witness ==
  /\ probe.op = "getRangeIndices"
  /\ cols = 10
  /\ probe.start = 2
  /\ probe.end = 25
  /\ probe.out = <<2, 3, 4, 5, 12, 13, 14, 15, 22, 23, 24, 25>>

\* C16: for a valid index, one toggleColor changes the color of that cell and
\* nothing else, and a second one gives back the original grid.
C16_ToggleColorInvolution ==
  (probe.op = "toggleColor" /\ probe.index \in 0..(4 * cols - 1)) =>
    /\ Len(Grid) = Len(probe.orig)
    /\ probe.n = 1 =>
         /\ \A i \in 0..(Len(Grid) - 1) :
              /\ ShapeOf(Grid, i) = ShapeOf(probe.orig, i)
              /\ i # probe.index => ColorOf(Grid, i) = ColorOf(probe.orig, i)
         /\ ColorOf(Grid, probe.index) \in {EMPTY, FILLED}
         /\ ColorOf(Grid, probe.index) # ColorOf(probe.orig, probe.index)
    /\ probe.n = 2 => Grid = probe.orig

\* C16 witness: cell 23, a filled right triangle, toggled twice.
C16_Witness ==
  /\ probe.op = "toggleColor"
  /\ probe.index = 23
  /\ probe.n = 2
  /\ ColorOf(probe.orig, 23) = FILLED
  /\ ShapeOf(probe.orig, 23) = TRIANGLE_RIGHT
  /\ Grid = probe.orig

\* C17: toggleShape moves the shape of the cell one step along SQUARE ->
\* TRIANGLE_LEFT -> TRIANGLE_RIGHT -> SQUARE, so three applications restore it,
\* and no application changes a color or another cell's shape.
C17_ToggleShapeCycle ==
  probe.op = "toggleShape" =>
    LET cycle == <<SQUARE, TRIANGLE_LEFT, TRIANGLE_RIGHT>>
        pos == CHOOSE k \in 1..3 : cycle[k] = ShapeOf(probe.orig, probe.index)
    IN /\ Len(Grid) = Len(probe.orig)
       /\ \A i \in 0..(Len(Grid) - 1) :
            /\ ColorOf(Grid, i) = ColorOf(probe.orig, i)
            /\ i # probe.index => ShapeOf(Grid, i) = ShapeOf(probe.orig, i)
       /\ ShapeOf(Grid, probe.index) = cycle[((pos - 1 + probe.n) % 3) + 1]
       /\ probe.n = 3 => Grid = probe.orig

\* C17 witness: cell 23, a filled left triangle, cycled three times.
C17_Witness ==
  /\ probe.op = "toggleShape"
  /\ probe.index = 23
  /\ probe.n = 3
  /\ ColorOf(probe.orig, 23) = FILLED
  /\ ShapeOf(probe.orig, 23) = TRIANGLE_LEFT
  /\ Grid = probe.orig

====
